---- MODULE Spec2Model ----
(***************************************************************************)
(* Model of the HMAC client of samples/hmac-python-client                  *)
(* (hmac_client/client.py): construction and configuration validation,    *)
(* the size guard, stateless signing/verification (sha256_sign,            *)
(* sha256_verify) and stateful signing/verification (sign256, verify256,   *)
(* _verify_timestamp).                                                     *)
(*                                                                         *)
(* Representation.  A byte string is a sequence of integers 0..255; a text *)
(* (Python str) is a sequence of Unicode code points; None is the string   *)
(* "None".  HMAC-SHA256 is an ideal keyed hash: its digest is the pair     *)
(* (key bytes, message bytes), so two digests are equal exactly when key   *)
(* and message are equal.  uuid.uuid4() is an ideal random source: the     *)
(* n-th draw of a process differs from all its earlier draws.              *)
(***************************************************************************)
EXTENDS Integers, Sequences, FiniteSets, TLC

VARIABLES
  client,     \* the HMACClient object the caller holds, or NoClient
  now,        \* the wall clock (UTC) at the last call: [s |-> seconds since 2024-01-01T00:00:00Z, us |-> microseconds]
  uuidCount,  \* number of uuid.uuid4() draws made so far by this process
  wire,       \* the message at hand: the one last signed here, or received from a peer
  res,        \* record of the last call on the message at hand: operation, outcome, effects
  threads     \* the call each thread is in: its position, arguments, locals and outcome

vars == <<client, now, uuidCount, wire, res, threads>>

None == "None"
NoClient == [kind |-> "no client"]

(***************************************************************************)
(* Bounds of the model.                                                    *)
(***************************************************************************)
MaxPayloadLen == 2   \* longest payload drawn
MaxClock == 3        \* the clock is read up to MaxClock half seconds after ClockStart
MaxUuid == 2         \* uuid4() draws per behaviour
MaxSkew == 1         \* a peer's clock is within MaxSkew seconds of the local clock's range

(***************************************************************************)
(* Text helpers.  Code points used in literals:                            *)
(*   43 '+'  45 '-'  46 '.'  48..57 '0'..'9'  58 ':'  84 'T'  90 'Z'      *)
(***************************************************************************)
IsDigit(c) == c >= 48 /\ c <= 57
DigitVal(c) == c - 48
Digits2(n) == <<48 + ((n \div 10) % 10), 48 + (n % 10)>>
Digits4(n) == <<48 + ((n \div 1000) % 10), 48 + ((n \div 100) % 10)>> \o Digits2(n % 100)
Digits6(n) == Digits2(n \div 10000) \o Digits2((n \div 100) % 100) \o Digits2(n % 100)

AllDigits(t) == \A i \in DOMAIN t : IsDigit(t[i])

RECURSIVE ParseInt(_)
ParseInt(t) == IF t = <<>> THEN 0
               ELSE (10 * ParseInt(SubSeq(t, 1, Len(t) - 1))) + DigitVal(t[Len(t)])

\* str.replace('Z', '+00:00'): every occurrence is replaced
RECURSIVE ReplaceZ(_)
ReplaceZ(t) == IF t = <<>> THEN <<>>
               ELSE (IF Head(t) = 90 THEN <<43, 48, 48, 58, 48, 48>> ELSE <<Head(t)>>)
                    \o ReplaceZ(Tail(t))

IsAscii(t) == \A i \in DOMAIN t : t[i] < 128

(***************************************************************************)
(* bytes.decode('utf-8') and str.encode('utf-8'), strict error handling.   *)
(* Both return [ok, val]; ok = FALSE stands for UnicodeDecodeError /       *)
(* UnicodeEncodeError.                                                     *)
(***************************************************************************)
IsCont(b) == b >= 128 /\ b <= 191

\* number of bytes of the UTF-8 sequence starting at b[i], 0 if b[i..] starts no valid sequence
Utf8SeqLen(b, i) ==
  LET b1 == b[i]
      has(k) == i + k <= Len(b)
      b2 == b[i + 1]
  IN  IF b1 < 128 THEN 1
      ELSE IF b1 >= 194 /\ b1 <= 223
        THEN IF has(1) /\ IsCont(b2) THEN 2 ELSE 0
      ELSE IF b1 >= 224 /\ b1 <= 239
        THEN IF /\ has(2)
                /\ IsCont(b2) /\ IsCont(b[i + 2])
                /\ (b1 = 224 => b2 >= 160)
                /\ (b1 = 237 => b2 <= 159)
             THEN 3 ELSE 0
      ELSE IF b1 >= 240 /\ b1 <= 244
        THEN IF /\ has(3)
                /\ IsCont(b2) /\ IsCont(b[i + 2]) /\ IsCont(b[i + 3])
                /\ (b1 = 240 => b2 >= 144)
                /\ (b1 = 244 => b2 <= 143)
             THEN 4 ELSE 0
      ELSE 0

Utf8CodePoint(b, i, n) ==
  CASE n = 1 -> b[i]
    [] n = 2 -> ((b[i] - 192) * 64) + (b[i + 1] - 128)
    [] n = 3 -> ((b[i] - 224) * 4096) + ((b[i + 1] - 128) * 64) + (b[i + 2] - 128)
    [] n = 4 -> ((b[i] - 240) * 262144) + ((b[i + 1] - 128) * 4096)
                + ((b[i + 2] - 128) * 64) + (b[i + 3] - 128)

RECURSIVE Utf8DecodeFrom(_, _)
Utf8DecodeFrom(b, i) ==
  IF i > Len(b) THEN [ok |-> TRUE, val |-> <<>>]
  ELSE LET n == Utf8SeqLen(b, i)
       IN  IF n = 0 THEN [ok |-> FALSE, val |-> <<>>]
           ELSE LET rest == Utf8DecodeFrom(b, i + n)
                IN  [ok |-> rest.ok,
                     val |-> IF rest.ok THEN <<Utf8CodePoint(b, i, n)>> \o rest.val ELSE <<>>]

Utf8Decode(b) == Utf8DecodeFrom(b, 1)

Utf8EncodeChar(c) ==
  IF c < 128 THEN <<c>>
  ELSE IF c < 2048 THEN <<192 + (c \div 64), 128 + (c % 64)>>
  ELSE IF c < 65536 THEN <<224 + (c \div 4096), 128 + ((c \div 64) % 64), 128 + (c % 64)>>
  ELSE <<240 + (c \div 262144), 128 + ((c \div 4096) % 64), 128 + ((c \div 64) % 64), 128 + (c % 64)>>

IsSurrogate(c) == c >= 55296 /\ c <= 57343

RECURSIVE Utf8EncodeAll(_)
Utf8EncodeAll(t) == IF t = <<>> THEN <<>> ELSE Utf8EncodeChar(Head(t)) \o Utf8EncodeAll(Tail(t))

Utf8Encode(t) ==
  IF \E i \in DOMAIN t : IsSurrogate(t[i])
  THEN [ok |-> FALSE, val |-> <<>>]
  ELSE [ok |-> TRUE, val |-> Utf8EncodeAll(t)]

(***************************************************************************)
(* datetime.  A datetime is [year, month, day, hour, minute, second,       *)
(* microsecond, aware, utcoffset]; aware = FALSE for a naive datetime      *)
(* (tzinfo None), else utcoffset is the offset in seconds.                 *)
(***************************************************************************)
IsLeap(y) == (y % 4 = 0) /\ ((y % 100 # 0) \/ (y % 400 = 0))

DaysInMonth(y, m) ==
  IF m = 2 THEN (IF IsLeap(y) THEN 29 ELSE 28)
  ELSE IF m \in {4, 6, 9, 11} THEN 30 ELSE 31

RECURSIVE DaysBeforeMonth(_, _)
DaysBeforeMonth(y, m) == IF m = 1 THEN 0 ELSE DaysBeforeMonth(y, m - 1) + DaysInMonth(y, m - 1)

\* date.toordinal(): 0001-01-01 is day 1
Ordinal(y, m, d) ==
  LET p == y - 1
  IN  (p * 365) + (p \div 4) - (p \div 100) + (p \div 400) + DaysBeforeMonth(y, m) + d

\* the clock's origin, 2024-01-01T00:00:00Z, as an ordinal day
ClockEpochDay == Ordinal(2024, 1, 1)

\* date.fromordinal() (_ord2ymd)
DateOfOrdinal(ord) ==
  LET n0 == ord - 1
      n400 == n0 \div 146097
      r400 == n0 % 146097
      n100 == r400 \div 36524
      r100 == r400 % 36524
      n4 == r100 \div 1461
      r4 == r100 % 1461
      n1 == r4 \div 365
      n == r4 % 365
      year == (n400 * 400) + 1 + (n100 * 100) + (n4 * 4) + n1
      before(m) == DaysBeforeMonth(year, m)
      month == CHOOSE m \in 1..12 : before(m) <= n /\ (m = 12 \/ before(m + 1) > n)
  IN  IF n1 = 4 \/ n100 = 4 THEN [year |-> year - 1, month |-> 12, day |-> 31]
      ELSE [year |-> year, month |-> month, day |-> n - before(month) + 1]

\* datetime.datetime.now(datetime.timezone.utc) when the clock shows t
UtcNow(t) ==
  LET date == DateOfOrdinal(ClockEpochDay + (t.s \div 86400))
      sod  == t.s % 86400
  IN  [year |-> date.year, month |-> date.month, day |-> date.day,
       hour |-> sod \div 3600, minute |-> (sod \div 60) % 60, second |-> sod % 60,
       microsecond |-> t.us, aware |-> TRUE, utcoffset |-> 0]

\* datetime.isoformat() of an aware datetime whose offset is whole minutes:
\* the fraction is written only when microsecond # 0
IsoFormat(dt) ==
  LET off == IF dt.utcoffset < 0 THEN 0 - dt.utcoffset ELSE dt.utcoffset
  IN  Digits4(dt.year) \o <<45>> \o Digits2(dt.month) \o <<45>> \o Digits2(dt.day)
      \o <<84>> \o Digits2(dt.hour) \o <<58>> \o Digits2(dt.minute) \o <<58>> \o Digits2(dt.second)
      \o (IF dt.microsecond # 0 THEN <<46>> \o Digits6(dt.microsecond) ELSE <<>>)
      \o <<IF dt.utcoffset < 0 THEN 45 ELSE 43>>
      \o Digits2(off \div 3600) \o <<58>> \o Digits2((off \div 60) % 60)

\* HH[:MM[:SS[.fff[fff]]]] -> [ok, hour, minute, second, microsecond]
ParseHhMmSsFf(t) ==
  LET n == Len(t)
      bad == [ok |-> FALSE, hour |-> 0, minute |-> 0, second |-> 0, microsecond |-> 0]
      two(i) == SubSeq(t, i, i + 1)
      frac == SubSeq(t, 10, n)
  IN  IF n \notin {2, 5, 8, 12, 15} THEN bad
      ELSE IF ~AllDigits(two(1)) THEN bad
      ELSE IF n >= 5 /\ ~(t[3] = 58 /\ AllDigits(two(4))) THEN bad
      ELSE IF n >= 8 /\ ~(t[6] = 58 /\ AllDigits(two(7))) THEN bad
      ELSE IF n >= 12 /\ ~(t[9] = 46 /\ AllDigits(frac)) THEN bad
      ELSE [ok |-> TRUE,
            hour |-> ParseInt(two(1)),
            minute |-> IF n >= 5 THEN ParseInt(two(4)) ELSE 0,
            second |-> IF n >= 8 THEN ParseInt(two(7)) ELSE 0,
            microsecond |-> IF n = 12 THEN ParseInt(frac) * 1000
                            ELSE IF n = 15 THEN ParseInt(frac) ELSE 0]

\* index of the first '+' or '-' of t, 0 if there is none
TzPos(t) ==
  LET at == {i \in DOMAIN t : t[i] \in {43, 45}}
  IN  IF at = {} THEN 0 ELSE CHOOSE i \in at : \A j \in at : i <= j

\* datetime.datetime.fromisoformat(t) -> [ok, dt]; ok = FALSE stands for ValueError.
\* The grammar is the one isoformat() writes: YYYY-MM-DD, any one separator
\* character, HH[:MM[:SS[.fff[fff]]]], and an optional offset +HH:MM[:SS] or
\* -HH:MM[:SS] (offsets with a fraction of a second are not drawn by this model).
FromIsoFormat(t) ==
  LET bad == [ok |-> FALSE, dt |-> None]
      n == Len(t)
      y == ParseInt(SubSeq(t, 1, 4))
      m == ParseInt(SubSeq(t, 6, 7))
      d == ParseInt(SubSeq(t, 9, 10))
      tstr == SubSeq(t, 12, n)
      tz == TzPos(tstr)
      timestr == IF tz = 0 THEN tstr ELSE SubSeq(tstr, 1, tz - 1)
      tzstr == IF tz = 0 THEN <<>> ELSE SubSeq(tstr, tz + 1, Len(tstr))
      tm == ParseHhMmSsFf(timestr)
      tzc == ParseHhMmSsFf(tzstr)
      offabs == (tzc.hour * 3600) + (tzc.minute * 60) + tzc.second
      off == IF tz = 0 THEN 0 ELSE IF tstr[tz] = 45 THEN 0 - offabs ELSE offabs
  IN  IF n < 10 \/ n = 11 THEN bad
      ELSE IF ~(AllDigits(SubSeq(t, 1, 4)) /\ t[5] = 45 /\ AllDigits(SubSeq(t, 6, 7))
                /\ t[8] = 45 /\ AllDigits(SubSeq(t, 9, 10))) THEN bad
      ELSE IF ~(y >= 1 /\ m >= 1 /\ m <= 12 /\ d >= 1 /\ d <= DaysInMonth(y, m)) THEN bad
      ELSE IF n = 10
        THEN [ok |-> TRUE,
              dt |-> [year |-> y, month |-> m, day |-> d, hour |-> 0, minute |-> 0,
                      second |-> 0, microsecond |-> 0, aware |-> FALSE, utcoffset |-> 0]]
      ELSE IF ~tm.ok \/ tm.hour > 23 \/ tm.minute > 59 \/ tm.second > 59 THEN bad
      ELSE IF tz # 0 /\ (Len(tzstr) \notin {5, 8} \/ ~tzc.ok \/ tzc.minute > 59
                         \/ tzc.second > 59 \/ offabs >= 86400) THEN bad
      ELSE [ok |-> TRUE,
            dt |-> [year |-> y, month |-> m, day |-> d, hour |-> tm.hour,
                    minute |-> tm.minute, second |-> tm.second,
                    microsecond |-> tm.microsecond, aware |-> tz # 0, utcoffset |-> off]]

\* a - b for two aware datetimes, as a normalised timedelta
\* [days, seconds, microseconds] with 0 <= seconds < 86400, 0 <= microseconds < 10^6
DatetimeSub(a, b) ==
  LET sod(x) == (x.hour * 3600) + (x.minute * 60) + x.second - x.utcoffset
      us0 == a.microsecond - b.microsecond
      s0  == sod(a) - sod(b) + (IF us0 < 0 THEN 0 - 1 ELSE 0)
      d0  == Ordinal(a.year, a.month, a.day) - Ordinal(b.year, b.month, b.day)
  IN  [days |-> d0 + (s0 \div 86400), seconds |-> s0 % 86400,
       microseconds |-> us0 % 1000000]

\* as AbsTotalSecondsLeq, had the comparison been strict
AbsTotalSecondsLeq_Strict(td, k) ==
  LET whole == (td.days * 86400) + td.seconds
  IN  IF td.days < 0 THEN td.days = 0 - 1 /\ (86400 - td.seconds) < k + (IF td.microseconds > 0 THEN 1 ELSE 0)
      ELSE td.days = 0 /\ whole < k

\* as AbsTotalSecondsLeq, had the absolute value been left out
AbsTotalSecondsLeq_Signed(td, k) ==
  td.days < 0 \/ (td.days = 0 /\ (td.seconds < k \/ (td.seconds = k /\ td.microseconds = 0)))

\* abs(td).total_seconds() <= k, for an integer k >= 0
AbsTotalSecondsLeq(td, k) ==
  LET neg == td.days < 0
      \* -td, normalised
      nus == (0 - td.microseconds) % 1000000
      ns0 == (0 - td.seconds) - (IF td.microseconds > 0 THEN 1 ELSE 0)
      a == IF neg THEN [days |-> (0 - td.days) + (ns0 \div 86400), seconds |-> ns0 % 86400,
                        microseconds |-> nus]
           ELSE td
      whole == (a.days * 86400) + a.seconds
  IN  IF a.days > k \div 86400 THEN FALSE
      ELSE whole < k \/ (whole = k /\ a.microseconds = 0)

(***************************************************************************)
(* hmac.  A hex digest string is [kind |-> "digest", key, msg, edit]: the  *)
(* 64 characters hexdigest() returns for (key, msg), with at most one      *)
(* character replaced (edit = [pos, by]; pos = 0 when nothing is           *)
(* replaced).  Any other str is [kind |-> "text", text].                   *)
(***************************************************************************)
NoEdit == [pos |-> 0, by |-> "none"]

\* hmac.new(key, msg, hashlib.sha256).hexdigest()
HmacSha256Hex(key, m) == [kind |-> "digest", key |-> key, msg |-> m, edit |-> NoEdit, text |-> <<>>]

TextStr(t) == [kind |-> "text", key |-> <<>>, msg |-> <<>>, edit |-> NoEdit, text |-> t]

\* is the str made of ASCII characters only
StrIsAscii(h) == IF h.kind = "digest" THEN h.edit.by # "nonascii" ELSE IsAscii(h.text)

\* hmac.compare_digest(a, b) on two str: [exc, ret]; TypeError when either
\* holds a non-ASCII character, else equality (in time independent of the
\* position of the first difference)
CompareDigest(a, b) ==
  IF ~StrIsAscii(a) \/ ~StrIsAscii(b)
  THEN [exc |-> "TypeError", ret |-> FALSE]
  ELSE [exc |-> None, ret |-> (a = b)]

(***************************************************************************)
(* constants.py and HMACClient.__init__                                    *)
(***************************************************************************)
DEFAULT_CONFIG == [key_interval |-> 300, max_input_size |-> 33554432, timeout |-> 30]

\* {**DEFAULT_CONFIG, **config}
MergeConfig(config) ==
  [k \in (DOMAIN DEFAULT_CONFIG) \cup (DOMAIN config) |->
     IF k \in DOMAIN config THEN config[k] ELSE DEFAULT_CONFIG[k]]

\* as ValidateConfig, had zero been accepted
ValidateConfig_ZeroOk(self) ==
  IF self.secret_key = <<>> THEN "ConfigurationError"
  ELSE IF self.config["key_interval"] < 0 THEN "ConfigurationError"
  ELSE IF self.config["max_input_size"] < 0 THEN "ConfigurationError"
  ELSE None

\* _validate_config: the exception it raises, or None
ValidateConfig(self) ==
  IF self.secret_key = <<>> THEN "ConfigurationError"
  ELSE IF self.config["key_interval"] <= 0 THEN "ConfigurationError"
  ELSE IF self.config["max_input_size"] <= 0 THEN "ConfigurationError"
  ELSE None

\* HMACClient(base_url, secret_key, **config): [exc, ret, obj, trace]; obj is the
\* object the caller receives (NoClient when __init__ raises)
InitOp(secret_key, config) ==
  LET self == [secret_key |-> secret_key, config |-> MergeConfig(config), session |-> "none"]
      exc == ValidateConfig(self)
  IN  IF exc # None
      THEN [exc |-> exc, ret |-> [kind |-> "none"], obj |-> NoClient,
            trace |-> <<"validate_config">>]
      ELSE [exc |-> None, ret |-> [kind |-> "client"], obj |-> [self EXCEPT !.session = "open"],
            trace |-> <<"validate_config", "Session">>]

\* as CheckInputSize, had the comparison been >=
CheckInputSize_Geq(self, data) ==
  IF Len(data) >= self.config["max_input_size"] THEN "InputTooLargeError" ELSE None

\* as CheckInputSize, had payloads of valid UTF-8 been let through unmeasured
CheckInputSize_TextOnly(self, data) ==
  IF Len(data) > self.config["max_input_size"] /\ ~Utf8Decode(data).ok
  THEN "InputTooLargeError" ELSE None

\* _check_input_size: the exception it raises, or None
CheckInputSize(self, data) ==
  IF Len(data) > self.config["max_input_size"] THEN "InputTooLargeError" ELSE None

(***************************************************************************)
(* The four operations.  Each returns [exc, ret, trace]: the exception     *)
(* that leaves the call (None if it returns), the value returned, and the  *)
(* sequence of effects of the call in the order they happen.               *)
(***************************************************************************)
NoRet == [kind |-> "none"]
BoolRet(b) == [kind |-> "bool", val |-> b]
SigRet(h) == [kind |-> "signature", hash |-> h]
TripleRet(h, ts, n) == [kind |-> "triple", hash |-> h, timestamp |-> ts, nonce |-> n]

Raise(e, tr) == [exc |-> e, ret |-> NoRet, trace |-> tr]
Return(v, tr) == [exc |-> None, ret |-> v, trace |-> tr]

\* as Sha256SignOp, had the digest been taken without the secret key
Sha256SignOp_Unkeyed(self, data) ==
  IF Len(data) > self.config["max_input_size"]
  THEN Raise("InputTooLargeError", <<"check_input_size">>)
  ELSE Return(SigRet(HmacSha256Hex(<<>>, data)), <<"check_input_size", "hmac">>)

\* sha256_sign(data)
Sha256SignOp(self, data) ==
  IF CheckInputSize(self, data) # None
  THEN Raise("InputTooLargeError", <<"check_input_size">>)
  ELSE LET key == Utf8Encode(self.secret_key)
       IN  IF ~key.ok THEN Raise("UnicodeEncodeError", <<"check_input_size">>)
           ELSE Return(SigRet(HmacSha256Hex(key.val, data)), <<"check_input_size", "hmac">>)

\* as CatchAll, had only ValueError been caught
CatchAll_ValueErrorOnly(r) ==
  IF r.exc = "ValueError" THEN Return(BoolRet(FALSE), r.trace) ELSE r

\* try: ... except InputTooLargeError: raise; except Exception: return False
CatchAll(r) ==
  IF r.exc = None \/ r.exc = "InputTooLargeError" THEN r
  ELSE Return(BoolRet(FALSE), r.trace)

\* the try block of sha256_verify
Sha256VerifyBody(self, data, signature) ==
  IF CheckInputSize(self, data) # None
  THEN Raise("InputTooLargeError", <<"check_input_size">>)
  ELSE LET s == Sha256SignOp(self, data)
           tr == <<"check_input_size">> \o s.trace
           c == CompareDigest(s.ret.hash, signature)
       IN  IF s.exc # None THEN Raise(s.exc, tr)
           ELSE IF c.exc # None THEN Raise(c.exc, tr \o <<"compare_digest">>)
           ELSE Return(BoolRet(c.ret), tr \o <<"compare_digest">>)

\* sha256_verify(data, signature)
Sha256VerifyOp(self, data, signature) == CatchAll(Sha256VerifyBody(self, data, signature))

\* as Message, had the nonce been left out of the signed text
Message_NoNonce(timestamp, nonce, text) == timestamp \o <<58>> \o text

\* f"{timestamp}:{nonce}:{text}"
Message(timestamp, nonce, text) == timestamp \o <<58>> \o nonce \o <<58>> \o text

\* sign256(data) when the clock shows t and uuid.uuid4() returns uuid
Sign256Op(self, t, uuid, data) ==
  IF CheckInputSize(self, data) # None
  THEN Raise("InputTooLargeError", <<"check_input_size">>)
  ELSE LET timestamp == IsoFormat(UtcNow(t))
           nonce == uuid
           text == Utf8Decode(data)
           key == Utf8Encode(self.secret_key)
           message == Utf8Encode(Message(timestamp, nonce, text.val))
           tr == <<"check_input_size", "now", "uuid4", "decode">>
       IN  IF ~text.ok THEN Raise("UnicodeDecodeError", tr)
           ELSE IF ~key.ok \/ ~message.ok THEN Raise("UnicodeEncodeError", tr \o <<"encode">>)
           ELSE Return(TripleRet(HmacSha256Hex(key.val, message.val), timestamp, nonce),
                       tr \o <<"encode", "hmac">>)

\* as VerifyTimestampBody, had every timestamp that parses been let through
VerifyTimestampBody_NoWindow(self, t, timestamp) ==
  LET ts == FromIsoFormat(ReplaceZ(timestamp))
  IN  IF ~ts.ok THEN Raise("ValueError", <<"fromisoformat">>)
      ELSE IF ~ts.dt.aware THEN Raise("TypeError", <<"fromisoformat", "now">>)
      ELSE Return(BoolRet(TRUE), <<"fromisoformat", "now">>)

\* the try block of _verify_timestamp when the clock shows t
VerifyTimestampBody(self, t, timestamp) ==
  LET ts == FromIsoFormat(ReplaceZ(timestamp))
      diff == DatetimeSub(UtcNow(t), ts.dt)
  IN  IF ~ts.ok THEN Raise("ValueError", <<"fromisoformat">>)
      \* now - ts with a naive ts
      ELSE IF ~ts.dt.aware THEN Raise("TypeError", <<"fromisoformat", "now">>)
      ELSE Return(BoolRet(AbsTotalSecondsLeq(diff, self.config["key_interval"])),
                  <<"fromisoformat", "now">>)

\* _verify_timestamp(timestamp): try: ... except Exception: return False
VerifyTimestampOp(self, t, timestamp) ==
  LET r == VerifyTimestampBody(self, t, timestamp)
  IN  IF r.exc = None THEN r ELSE Return(BoolRet(FALSE), r.trace)

\* as Verify256Body, had the signature been computed before the timestamp
\* was looked at
Verify256Body_MacFirst(self, t, data, hash_value, timestamp, nonce) ==
  IF CheckInputSize(self, data) # None
  THEN Raise("InputTooLargeError", <<"check_input_size">>)
  ELSE LET vt == VerifyTimestampOp(self, t, timestamp)
           text == Utf8Decode(data)
           key == Utf8Encode(self.secret_key)
           message == Utf8Encode(Message(timestamp, nonce, text.val))
           tr2 == <<"check_input_size", "decode">>
           tr3 == tr2 \o <<"encode">>
           tr4 == tr3 \o <<"hmac">> \o vt.trace
           c == CompareDigest(HmacSha256Hex(key.val, message.val), hash_value)
       IN  IF ~text.ok THEN Raise("UnicodeDecodeError", tr2)
           ELSE IF ~key.ok \/ ~message.ok THEN Raise("UnicodeEncodeError", tr3)
           ELSE IF ~vt.ret.val THEN Return(BoolRet(FALSE), tr4)
           ELSE IF c.exc # None THEN Raise(c.exc, tr4 \o <<"compare_digest">>)
           ELSE Return(BoolRet(c.ret), tr4 \o <<"compare_digest">>)

\* as Verify256Body, had the signed text been rebuilt from the timestamp
\* with its 'Z' replaced, as it is parsed
Verify256Body_Normalised(self, t, data, hash_value, timestamp, nonce) ==
  IF CheckInputSize(self, data) # None
  THEN Raise("InputTooLargeError", <<"check_input_size">>)
  ELSE LET vt == VerifyTimestampOp(self, t, timestamp)
           text == Utf8Decode(data)
           key == Utf8Encode(self.secret_key)
           message == Utf8Encode(Message(ReplaceZ(timestamp), nonce, text.val))
           tr1 == <<"check_input_size">> \o vt.trace
           tr2 == tr1 \o <<"decode">>
           tr3 == tr2 \o <<"encode">>
           c == CompareDigest(HmacSha256Hex(key.val, message.val), hash_value)
       IN  IF ~vt.ret.val THEN Return(BoolRet(FALSE), tr1)
           ELSE IF ~text.ok THEN Raise("UnicodeDecodeError", tr2)
           ELSE IF ~key.ok \/ ~message.ok THEN Raise("UnicodeEncodeError", tr3)
           ELSE IF c.exc # None THEN Raise(c.exc, tr3 \o <<"hmac", "compare_digest">>)
           ELSE Return(BoolRet(c.ret), tr3 \o <<"hmac", "compare_digest">>)

\* the try block of verify256 when the clock shows t
Verify256Body(self, t, data, hash_value, timestamp, nonce) ==
  IF CheckInputSize(self, data) # None
  THEN Raise("InputTooLargeError", <<"check_input_size">>)
  ELSE LET vt == VerifyTimestampOp(self, t, timestamp)
           text == Utf8Decode(data)
           key == Utf8Encode(self.secret_key)
           message == Utf8Encode(Message(timestamp, nonce, text.val))
           tr1 == <<"check_input_size">> \o vt.trace
           tr2 == tr1 \o <<"decode">>
           tr3 == tr2 \o <<"encode">>
           c == CompareDigest(HmacSha256Hex(key.val, message.val), hash_value)
       IN  IF ~vt.ret.val THEN Return(BoolRet(FALSE), tr1)
           ELSE IF ~text.ok THEN Raise("UnicodeDecodeError", tr2)
           ELSE IF ~key.ok \/ ~message.ok THEN Raise("UnicodeEncodeError", tr3)
           ELSE IF c.exc # None THEN Raise(c.exc, tr3 \o <<"hmac", "compare_digest">>)
           ELSE Return(BoolRet(c.ret), tr3 \o <<"hmac", "compare_digest">>)

\* as Verify256Op, had a failed timestamp check raised InvalidTimestampError
Verify256Op_Leaky(self, t, data, hash_value, timestamp, nonce) ==
  IF CheckInputSize(self, data) = None /\ ~VerifyTimestampOp(self, t, timestamp).ret.val
  THEN Raise("InvalidTimestampError", <<"check_input_size">>)
  ELSE CatchAll(Verify256Body(self, t, data, hash_value, timestamp, nonce))

\* as Verify256Op, had the verifier refused a nonce it has just accepted
Verify256Op_Once(self, t, data, hash_value, timestamp, nonce) ==
  IF res.op = "verify256" /\ res.ret = BoolRet(TRUE) /\ wire.nonce = nonce
  THEN Return(BoolRet(FALSE), <<"check_input_size">>)
  ELSE CatchAll(Verify256Body(self, t, data, hash_value, timestamp, nonce))

\* verify256(data, hash_value, timestamp, nonce)
Verify256Op(self, t, data, hash_value, timestamp, nonce) ==
  CatchAll(Verify256Body(self, t, data, hash_value, timestamp, nonce))

(***************************************************************************)
(* Requests.  A JSON value is [t, n, s, items]: an integer n, a string s,  *)
(* a list of values or a dict of <<key, value>> pairs.  A dict of headers  *)
(* is a function from header names to values.  The URL is left out.        *)
(***************************************************************************)
HEADER_HMAC_HASH == "X-HMAC-Hash"
HEADER_HMAC_TIMESTAMP == "X-HMAC-Timestamp"
HEADER_HMAC_NONCE == "X-HMAC-Nonce"

JInt(n) == [t |-> "int", n |-> n, s |-> <<>>, items |-> <<>>]
JStr(x) == [t |-> "str", n |-> 0, s |-> x, items |-> <<>>]
JList(xs) == [t |-> "list", n |-> 0, s |-> <<>>, items |-> xs]
JDict(kvs) == [t |-> "dict", n |-> 0, s |-> <<>>, items |-> kvs]
\* json=None
NoJson == [t |-> "none", n |-> 0, s |-> <<>>, items |-> <<>>]

\* str(n) of an integer
RECURSIVE NatStr(_)
NatStr(n) == IF n < 10 THEN <<48 + n>> ELSE NatStr(n \div 10) \o <<48 + (n % 10)>>
IntStr(n) == IF n < 0 THEN <<45>> \o NatStr(0 - n) ELSE NatStr(n)

HexDigit(d) == IF d < 10 THEN 48 + d ELSE 87 + d
Hex4(n) == <<HexDigit(n \div 4096), HexDigit((n \div 256) % 16),
             HexDigit((n \div 16) % 16), HexDigit(n % 16)>>

\* one character of a JSON string under ensure_ascii
JsonChar(c) ==
  IF c = 34 THEN <<92, 34>>
  ELSE IF c = 92 THEN <<92, 92>>
  ELSE IF c = 10 THEN <<92, 110>>
  ELSE IF c = 13 THEN <<92, 114>>
  ELSE IF c = 9 THEN <<92, 116>>
  ELSE IF c = 8 THEN <<92, 98>>
  ELSE IF c = 12 THEN <<92, 102>>
  ELSE IF c < 32 \/ (c > 126 /\ c < 65536) THEN <<92, 117>> \o Hex4(c)
  ELSE IF c >= 65536
       THEN <<92, 117>> \o Hex4(55296 + ((c - 65536) \div 1024))
            \o <<92, 117>> \o Hex4(56320 + ((c - 65536) % 1024))
  ELSE <<c>>

RECURSIVE JsonChars(_)
JsonChars(x) == IF x = <<>> THEN <<>> ELSE JsonChar(Head(x)) \o JsonChars(Tail(x))

JsonString(x) == <<34>> \o JsonChars(x) \o <<34>>

\* json.dumps(v, separators=(',', ':')) is JsonText(v, "value"); JsonText(xs,
\* "list") and JsonText(xs, "dict") are the items of a list and of a dict
RECURSIVE JsonText(_, _)
JsonText(x, as) ==
  IF as = "value"
  THEN IF x.t = "int" THEN IntStr(x.n)
       ELSE IF x.t = "str" THEN JsonString(x.s)
       ELSE IF x.t = "list" THEN <<91>> \o JsonText(x.items, "list") \o <<93>>
       ELSE <<123>> \o JsonText(x.items, "dict") \o <<125>>
  ELSE IF x = <<>> THEN <<>>
  ELSE (IF as = "dict"
        THEN JsonString(Head(x)[1]) \o <<58>> \o JsonText(Head(x)[2], "value")
        ELSE JsonText(Head(x), "value"))
       \o (IF Tail(x) = <<>> THEN <<>> ELSE <<44>> \o JsonText(Tail(x), as))

JsonDumps(v) == JsonText(v, "value")

\* the data argument: None, a str, bytes, or an int
DNone == [t |-> "none", n |-> 0, s |-> <<>>]
DStr(x) == [t |-> "str", n |-> 0, s |-> x]
DBytes(b) == [t |-> "bytes", n |-> 0, s |-> b]
DInt(n) == [t |-> "int", n |-> n, s |-> <<>>]

\* _prepare_request_body(json_data, data): [exc, ret, trace], ret.body the bytes
BodyRet(b) == [kind |-> "body", body |-> b]

\* as PrepareRequestBody, had data been looked at before json_data
PrepareRequestBody_DataFirst(json_data, data) ==
  LET enc(x) == IF Utf8Encode(x).ok THEN Return(BodyRet(Utf8Encode(x).val), <<"prepare_request_body">>)
                ELSE Raise("UnicodeEncodeError", <<"prepare_request_body">>)
  IN  IF data # DNone
      THEN IF data.t = "str" THEN enc(data.s)
           ELSE IF data.t = "bytes" THEN Return(BodyRet(data.s), <<"prepare_request_body">>)
           ELSE enc(IntStr(data.n))
      ELSE IF json_data # NoJson THEN enc(JsonDumps(json_data))
      ELSE Return(BodyRet(<<>>), <<"prepare_request_body">>)

PrepareRequestBody(json_data, data) ==
  LET enc(x) == IF Utf8Encode(x).ok THEN Return(BodyRet(Utf8Encode(x).val), <<"prepare_request_body">>)
                ELSE Raise("UnicodeEncodeError", <<"prepare_request_body">>)
  IN  IF json_data # NoJson THEN enc(JsonDumps(json_data))
      ELSE IF data # DNone
           THEN IF data.t = "str" THEN enc(data.s)
                ELSE IF data.t = "bytes" THEN Return(BodyRet(data.s), <<"prepare_request_body">>)
                ELSE enc(IntStr(data.n))
      ELSE Return(BodyRet(<<>>), <<"prepare_request_body">>)

\* the three headers of a signature
HmacHeaders(hash_value, timestamp, nonce) ==
  (HEADER_HMAC_HASH :> hash_value) @@ (HEADER_HMAC_TIMESTAMP :> TextStr(timestamp))
    @@ (HEADER_HMAC_NONCE :> TextStr(nonce))

\* as DictUpdate, had the entries already in d been kept
DictUpdate_KeepsOld(d, u) == d @@ u

\* d.update(u), d[k] = v
DictUpdate(d, u) == u @@ d

DictSet(d, k, v) == (k :> v) @@ d

ContentTypeJson ==
  TextStr(<<97, 112, 112, 108, 105, 99, 97, 116, 105, 111, 110, 47, 106, 115, 111, 110>>)

\* nothing reached session.request
NoSent == [kind |-> "nothing"]

\* the outcome of a request: what was raised or returned, the prepared body,
\* what session.request was called with, and the caller's headers dict as
\* the call leaves it
ReqResult(exc, ret, trace, body, sent, headers) ==
  [exc |-> exc, ret |-> ret, trace |-> trace, body |-> body, sent |-> sent, headers |-> headers]

\* as SendSigned, had the request been sent whether or not signing succeeded
SendSigned_Regardless(transport, method, json_data, kwargs, body, tr, sg) ==
  LET three == HmacHeaders(sg.ret.hash, sg.ret.timestamp, sg.ret.nonce)
      h0 == IF kwargs.has_headers THEN kwargs.headers ELSE <<>>
      h1 == IF sg.exc # None THEN h0
            ELSE IF kwargs.has_headers THEN DictUpdate(kwargs.headers, three) ELSE three
      h2 == IF json_data # NoJson THEN DictSet(h1, "Content-Type", ContentTypeJson) ELSE h1
      sent == [kind |-> "request", method |-> method, headers |-> h2,
               has_data |-> body # <<>>, data |-> body, json |-> kwargs.json]
  IN  IF transport = "RequestException"
      THEN ReqResult("HTTPError", NoRet, tr \o sg.trace \o <<"session.request">>, body, sent, h2)
      ELSE ReqResult(None, [kind |-> "response"], tr \o sg.trace \o <<"session.request">>,
                     body, sent, h2)

\* _make_request from the headers on, sg being what sign256(body) returned
SendSigned(transport, method, json_data, kwargs, body, tr, sg) ==
  LET three == HmacHeaders(sg.ret.hash, sg.ret.timestamp, sg.ret.nonce)
      h1 == IF kwargs.has_headers THEN DictUpdate(kwargs.headers, three) ELSE three
      h2 == IF json_data # NoJson THEN DictSet(h1, "Content-Type", ContentTypeJson) ELSE h1
      sent == [kind |-> "request", method |-> method, headers |-> h2,
               has_data |-> body # <<>>, data |-> body, json |-> kwargs.json]
  IN  IF sg.exc # None THEN ReqResult(sg.exc, NoRet, tr \o sg.trace, body, NoSent, kwargs.headers)
      ELSE IF transport = "RequestException"
           THEN ReqResult("HTTPError", NoRet, tr \o sg.trace \o <<"session.request">>, body, sent, h2)
      ELSE ReqResult(None, [kind |-> "response"], tr \o sg.trace \o <<"session.request">>,
                     body, sent, h2)

\* _make_request from the signing on, b being what _prepare_request_body returned
SignAndSend(self, t, uuid, transport, method, json_data, kwargs, b) ==
  IF b.exc # None THEN ReqResult(b.exc, NoRet, b.trace, <<>>, NoSent, kwargs.headers)
  ELSE SendSigned(transport, method, json_data, kwargs, b.ret.body, b.trace,
                  Sign256Op(self, t, uuid, b.ret.body))

\* _make_request(method, path, json_data, data, **kwargs) when the clock shows
\* t, uuid4() returns uuid and the transport answers or raises RequestException;
\* kwargs is [has_headers, headers, json]: whether headers= was given, its dict,
\* and a json= that is left among the keyword arguments
MakeRequestOp(self, t, uuid, transport, method, json_data, data, kwargs) ==
  SignAndSend(self, t, uuid, transport, method, json_data, kwargs,
              PrepareRequestBody(json_data, data))

\* get, post, put, delete(path, json=json, data=data, **kwargs): post and put
\* hand json on as json_data; get and delete leave it among the keyword
\* arguments, from where it reaches session.request
RequestOp(self, t, uuid, transport, method, json, data, kwargs) ==
  MakeRequestOp(self, t, uuid, transport, method,
                IF method \in {"POST", "PUT"} THEN json ELSE NoJson, data,
                [kwargs EXCEPT !.json = IF method \in {"POST", "PUT"} THEN NoJson ELSE json])

\* as CloseOp, had closing put the configuration back to the defaults
CloseOp_Forgets(self) ==
  [exc |-> None, ret |-> NoRet,
   obj |-> [self EXCEPT !.session = "closed", !.config = DEFAULT_CONFIG],
   trace |-> <<"session.close">>]

\* close(): [exc, ret, obj, trace]
CloseOp(self) ==
  [exc |-> None, ret |-> NoRet, obj |-> [self EXCEPT !.session = "closed"],
   trace |-> <<"session.close">>]

\* __enter__()
EnterOp(self) == [exc |-> None, ret |-> [kind |-> "client"], obj |-> self, trace |-> <<>>]

\* as ExitOp, had __exit__ returned True
ExitOp_Suppresses(self, exc_type) ==
  LET c == CloseOp(self)
  IN  [exc |-> c.exc, ret |-> BoolRet(TRUE), obj |-> c.obj, trace |-> <<"close">> \o c.trace]

\* __exit__(exc_type, exc_val, exc_tb): returns None
ExitOp(self, exc_type) ==
  LET c == CloseOp(self)
  IN  [exc |-> c.exc, ret |-> NoRet, obj |-> c.obj, trace |-> <<"close">> \o c.trace]

(***************************************************************************)
(* Inputs.                                                                 *)
(***************************************************************************)
SeqsUpTo(S, n) == UNION {[1..k -> S] : k \in 0..n}

\* payload bytes: ':' and 0xC3 0xA9 (the UTF-8 form of U+00E9; either byte
\* alone is not valid UTF-8)
PayloadBytes == {58, 195, 169}
Payloads == SeqsUpTo(PayloadBytes, MaxPayloadLen)

\* secret keys: the client is given "k" or the empty key; peers hold "k" or "q"
SecretKeyInputs == {<<107>>, <<>>}
PeerKeys == {<<107>>, <<113>>}

\* keyword overrides given to the constructor: each option is absent or one value
KeyIntervalInputs == {0 - 1, 0, 1}
MaxInputSizeInputs == {0 - 1, 0, 1}
Override(name, opt) == [k \in {n \in {name} : opt # {}} |-> CHOOSE v \in opt : TRUE]
ConfigInputs ==
  {Override("key_interval", ki) @@ Override("max_input_size", mis) :
     ki \in {{}} \cup {{v} : v \in KeyIntervalInputs},
     mis \in {{}} \cup {{v} : v \in MaxInputSizeInputs}}

\* as Uuid4, had the nonce been drawn once and reused
Uuid4_Reused(i) ==
  LET z(n) == [j \in 1..n |-> 48]
  IN  z(8) \o <<45>> \o z(4) \o <<45, 52>> \o z(3) \o <<45, 56>> \o z(3) \o <<45>> \o z(12)

\* str(uuid.uuid4()) of the i-th draw: 8-4-4-4-12 hexadecimal digits, version 4
Uuid4(i) ==
  LET z(n) == [j \in 1..n |-> 48]
  IN  z(8) \o <<45>> \o z(4) \o <<45, 52>> \o z(3) \o <<45, 56>> \o z(3) \o <<45>>
      \o z(10) \o Digits2(i)

\* the clock starts at 2023-12-31T23:59:59Z and is read in half seconds
ClockStart == [s |-> 0 - 1, us |-> 0]
ClockValues == {[s |-> ClockStart.s + (k \div 2), us |-> (k % 2) * 500000] : k \in 0..MaxClock}
ClockEnd == ClockStart.s + ((MaxClock + 1) \div 2)

\* the clock does not run backwards: t is not before u
NotBefore(t, u) == t.s > u.s \/ (t.s = u.s /\ t.us >= u.us)

\* what the clocks of peers may show (whole seconds)
PeerClocks == {[s |-> ps, us |-> 0] : ps \in (ClockStart.s - MaxSkew)..(ClockEnd + MaxSkew)}

\* Go's time.RFC3339 text of a UTC instant: whole seconds, 'Z' for the zone
GoRfc3339(t) == SubSeq(IsoFormat([UtcNow(t) EXCEPT !.microsecond = 0]), 1, 19) \o <<90>>

\* the instant ClockStart written with the offset +01:00
OffsetTimestamp ==
  IsoFormat([year |-> 2024, month |-> 1, day |-> 1, hour |-> 0, minute |-> 59, second |-> 59,
             microsecond |-> 0, aware |-> TRUE, utcoffset |-> 3600])


\* "not-a-date", "", and a timestamp without offset (2023-12-31T23:59:59)
NotADate == <<110, 111, 116, 45, 97, 45, 100, 97, 116, 101>>
NaiveTimestamp == SubSeq(IsoFormat(UtcNow(ClockStart)), 1, 19)
JunkTimestamps == {NotADate, <<>>, NaiveTimestamp}

\* signatures that are no digest: "invalid", "", and the non-ASCII "é"
JunkHashes == {TextStr(<<105, 110, 118, 97, 108, 105, 100>>), TextStr(<<>>), TextStr(<<233>>)}

\* The signature a peer holding secret key k computes for (timestamp, nonce,
\* data): HMAC-SHA256(timestamp + ":" + nonce + ":" + data) over bytes
PeerSign256(k, timestamp, nonce, data) ==
  HmacSha256Hex(Utf8Encode(k).val, Utf8Encode(timestamp \o <<58>> \o nonce \o <<58>>).val \o data)

\* the client object of a peer holding secret key k (default configuration)
PeerClient(k) == InitOp(k, <<>>).obj

\* the stateless signature a peer holding k computes with sha256_sign
PeerSha256Sign(k, data) == Sha256SignOp(PeerClient(k), data).ret.hash

(***************************************************************************)
(* The message at hand and the record of a call.                           *)
(* A message is the arguments of a verification (data, hash, timestamp,    *)
(* nonce) with where it comes from: mode ("simple" for sha256_sign,        *)
(* "secure" for sign256), origin ("own": returned by a signing call on     *)
(* this client, "peer": signed by a holder of key, "junk": not signed),    *)
(* signedAt (the signer's clock when it signed) and tsform (how the        *)
(* timestamp is written: "iso" by isoformat(), "go" as RFC 3339 with 'Z',  *)
(* "offset" with +01:00, "junk" when it is no aware timestamp), and, when  *)
(* one character of one field was changed in transit, edit (the field)     *)
(* and orig (the four fields before the change).                           *)
(***************************************************************************)
Fields(data, hash, timestamp, nonce) ==
  [data |-> data, hash |-> hash, timestamp |-> timestamp, nonce |-> nonce]

NoHash == TextStr(<<>>)
NoFields == Fields(<<>>, NoHash, <<>>, <<>>)

Msg(mode, origin, key, signedAt, tsform, f) ==
  [data |-> f.data, hash |-> f.hash, timestamp |-> f.timestamp, nonce |-> f.nonce,
   mode |-> mode, origin |-> origin, key |-> key, signedAt |-> signedAt, tsform |-> tsform,
   edit |-> "none", orig |-> f]

NoMsg == Msg("none", "none", <<>>, ClockStart, "none", NoFields)

NoCall == [op |-> "none", ctor |-> [secret_key |-> <<>>, config |-> <<>>], data |-> <<>>,
           exc |-> None, ret |-> NoRet, trace |-> <<>>, prev |-> NoFields]

\* r is the [exc, ret, trace] of operation op called with data
Call(op, data, r) ==
  [NoCall EXCEPT !.op = op, !.data = data, !.exc = r.exc, !.ret = r.ret, !.trace = r.trace]

\* the threads of the process that call the client
Threads == {1, 2}

\* a thread in no call; in a call, pc is the step it takes next, t the clock
\* value it read, and hash, timestamp, nonce its arguments or locals
Idle ==
  [pc |-> "idle", op |-> "none", data |-> <<>>, hash |-> NoHash, timestamp |-> <<>>,
   nonce |-> <<>>, t |-> ClockStart, exc |-> None, ret |-> NoRet, trace |-> <<>>, calls |-> 0]

(***************************************************************************)
(* Actions.  A call happens when the clock shows t, not before the         *)
(* previous call.                                                          *)
(***************************************************************************)
Init ==
  /\ client = NoClient
  /\ now = ClockStart
  /\ uuidCount = 0
  /\ wire = NoMsg
  /\ res = NoCall
  /\ threads = [i \in Threads |-> Idle]

\* client = HMACClient(base_url, secret_key, **config)
Construct ==
  /\ client = NoClient
  /\ \E secret_key \in SecretKeyInputs, config \in ConfigInputs :
       LET r == InitOp(secret_key, config)
       IN  /\ client' = r.obj
           /\ res' = [Call("init", <<>>, r) EXCEPT
                        !.ctor = [secret_key |-> secret_key, config |-> config]]
  /\ UNCHANGED <<now, uuidCount, wire, threads>>

\* client.sha256_sign(data)
Sha256Sign ==
  /\ client # NoClient
  /\ wire = NoMsg /\ res.op \in {"none", "init", "sha256_sign", "sign256"}
  /\ \E data \in Payloads, t \in ClockValues :
       LET r == Sha256SignOp(client, data)
       IN  /\ NotBefore(t, now)
           /\ now' = t
           /\ res' = Call("sha256_sign", data, r)
           /\ wire' = IF r.exc = None
                     THEN Msg("simple", "own", client.secret_key, t, "none",
                              Fields(data, r.ret.hash, <<>>, <<>>))
                     ELSE NoMsg
  /\ UNCHANGED <<client, uuidCount, threads>>

\* client.sign256(data)
Sign256 ==
  /\ client # NoClient
  /\ \/ wire = NoMsg /\ res.op \in {"none", "init", "sha256_sign", "sign256"}
     \/ wire.origin = "own" /\ wire.mode = "secure" /\ wire.edit = "none"
  /\ uuidCount < MaxUuid
  /\ \E data \in Payloads, t \in ClockValues :
       LET r == Sign256Op(client, t, Uuid4(uuidCount + 1), data)
           drew == \E i \in DOMAIN r.trace : r.trace[i] = "uuid4"
       IN  /\ NotBefore(t, now)
           /\ now' = t
           /\ res' = [Call("sign256", data, r) EXCEPT
                        !.prev = IF wire = NoMsg THEN NoFields ELSE wire.orig]
           /\ wire' = IF r.exc = None
                     THEN Msg("secure", "own", client.secret_key, t, "iso",
                              Fields(data, r.ret.hash, r.ret.timestamp, r.ret.nonce))
                     ELSE NoMsg
           /\ uuidCount' = IF drew THEN uuidCount + 1 ELSE uuidCount
  /\ UNCHANGED <<client, threads>>

\* a message arrives that a peer signed with sha256_sign
ReceiveSimple ==
  /\ client # NoClient
  /\ wire = NoMsg /\ res.op \in {"none", "init"}
  /\ \E k \in PeerKeys, data \in Payloads :
       wire' = Msg("simple", "peer", k, ClockStart, "none",
                   Fields(data, PeerSha256Sign(k, data), <<>>, <<>>))
  /\ res' = NoCall
  /\ UNCHANGED <<client, now, uuidCount, threads>>

\* a message arrives that a peer signed with sign256 when its clock showed pt
ReceiveSecure ==
  /\ client # NoClient
  /\ wire = NoMsg /\ res.op \in {"none", "init"}
  /\ \E k \in PeerKeys, data \in Payloads, pt \in PeerClocks :
       LET ts == IsoFormat(UtcNow(pt))
       IN  wire' = Msg("secure", "peer", k, pt, "iso",
                       Fields(data, PeerSign256(k, ts, Uuid4(0), data), ts, Uuid4(0)))
  /\ res' = NoCall
  /\ UNCHANGED <<client, now, uuidCount, threads>>

\* a message arrives that a peer signed over a timestamp in another form:
\* RFC 3339 with 'Z', the offset +01:00, no offset, no timestamp at all
ReceiveOther ==
  /\ client # NoClient
  /\ wire = NoMsg /\ res.op \in {"none", "init"}
  /\ \E k \in PeerKeys, data \in {<<>>, <<195, 169>>}, pt \in PeerClocks,
        form \in {"go", "offset", "junk"}, junk \in JunkTimestamps :
       LET ts == CASE form = "go" -> GoRfc3339(pt)
                   [] form = "offset" -> OffsetTimestamp
                   [] form = "junk" -> junk
           at == IF form = "go" THEN pt ELSE ClockStart
       IN  /\ form = "go" => junk = NotADate
           /\ form # "go" => pt = ClockStart
           /\ form = "offset" => junk = NotADate
           /\ wire' = Msg("secure", "peer", k, at, form,
                          Fields(data, PeerSign256(k, ts, Uuid4(0), data), ts, Uuid4(0)))
  /\ res' = NoCall
  /\ UNCHANGED <<client, now, uuidCount, threads>>

\* a message arrives whose signature is no digest
ReceiveJunk ==
  /\ client # NoClient
  /\ wire = NoMsg /\ res.op \in {"none", "init"}
  /\ \E mode \in {"simple", "secure"}, data \in Payloads, h \in JunkHashes,
        ts \in {NotADate, OffsetTimestamp} :
       /\ mode = "simple" => ts = NotADate
       /\ wire' = Msg(mode, "junk", <<>>, ClockStart, "junk",
                      Fields(data, h, IF mode = "simple" THEN <<>> ELSE ts, <<>>))
  /\ res' = NoCall
  /\ UNCHANGED <<client, now, uuidCount, threads>>

\* the caller lets go of the message at hand and of the last result
Drop ==
  /\ wire # NoMsg \/ res.op \notin {"none", "init"}
  /\ wire' = NoMsg
  /\ res' = NoCall
  /\ UNCHANGED <<client, now, uuidCount, threads>>

\* client.sha256_verify(data, signature) on the message at hand
Sha256Verify ==
  /\ client # NoClient
  /\ wire.mode = "simple"
  /\ \E t \in ClockValues :
       /\ NotBefore(t, now)
       /\ now' = t
       /\ res' = Call("sha256_verify", wire.data, Sha256VerifyOp(client, wire.data, wire.hash))
  /\ UNCHANGED <<client, uuidCount, wire, threads>>

\* client.verify256(data, hash_value, timestamp, nonce) on the message at hand
Verify256 ==
  /\ client # NoClient
  /\ wire.mode = "secure"
  /\ \E t \in ClockValues :
       /\ NotBefore(t, now)
       /\ now' = t
       \* prev: what the call before this one accepted, for the record
       /\ res' = [Call("verify256", wire.data,
                       Verify256Op(client, t, wire.data, wire.hash, wire.timestamp, wire.nonce))
                    EXCEPT !.prev = IF res.op = "verify256" /\ res.ret = BoolRet(TRUE)
                                    THEN Fields(wire.data, wire.hash, wire.timestamp, wire.nonce)
                                    ELSE NoFields]
  /\ UNCHANGED <<client, uuidCount, wire, threads>>

Next ==
  \/ Construct
  \/ Sha256Sign
  \/ Sign256
  \/ ReceiveSimple
  \/ ReceiveSecure
  \/ ReceiveOther
  \/ ReceiveJunk
  \/ Drop
  \/ Sha256Verify
  \/ Verify256

Spec == Init /\ [][Next]_vars

(***************************************************************************)
(* Tampering in transit: between an accepted verification and the next     *)
(* one, exactly one character of exactly one of the four fields changes.   *)
(***************************************************************************)
\* what a byte of the payload is replaced by: ";" and the continuation byte
\* 0xAA, which turns ":" into ";" and "\u00e9" into "\u00ea", and other
\* payloads into bytes that are not UTF-8
DataTamperBytes == {59, 170}

\* what a character of the timestamp is replaced by: "1", which keeps the
\* text a timestamp where it replaces a digit and breaks it elsewhere
TimestampTamperChars == {49}

\* what a character of the nonce is replaced by: the separator ":"
NonceTamperChars == {58}

\* where and how a signature's character is replaced: by another hexadecimal
\* digit, by the same digit in upper case, by a character outside ASCII
HashEdits == {[pos |-> p, by |-> b] : p \in {1, 64}, b \in {"hex", "upper", "nonascii"}}

Tamper ==
  /\ client # NoClient
  /\ wire.mode = "secure" /\ wire.edit = "none"
  /\ res.op = "verify256" /\ res.exc = None /\ res.ret = BoolRet(TRUE)
  /\ \/ \E i \in DOMAIN wire.data, b \in DataTamperBytes :
          /\ b # wire.data[i]
          /\ wire' = [wire EXCEPT !.edit = "data", !.data[i] = b]
     \/ \E e \in HashEdits :
          /\ wire.hash.kind = "digest"
          /\ wire' = [wire EXCEPT !.edit = "hash", !.hash.edit = e]
     \/ \E i \in DOMAIN wire.timestamp, c \in TimestampTamperChars :
          /\ c # wire.timestamp[i]
          /\ wire' = [wire EXCEPT !.edit = "timestamp", !.timestamp[i] = c]
     \/ \E i \in DOMAIN wire.nonce, c \in NonceTamperChars :
          /\ c # wire.nonce[i]
          /\ wire' = [wire EXCEPT !.edit = "nonce", !.nonce[i] = c]
  /\ res' = NoCall
  /\ UNCHANGED <<client, now, uuidCount, threads>>

NextTamper ==
  \/ Construct
  \/ Sign256
  \/ ReceiveOther
  \/ Tamper
  \/ Verify256
  \/ Drop

SpecTamper == Init /\ [][NextTamper]_vars

(***************************************************************************)
(* The client over its life: requests, close and the with statement next   *)
(* to signing and verifying the client's own messages.                     *)
(***************************************************************************)
Methods == {"GET", "POST", "PUT", "DELETE"}

\* json=: none, {"a":[1,"\u00e9"]}, 0
JsonInputs == {NoJson, JDict(<< <<(<<97>>), JList(<<JInt(1), JStr(<<233>>)>>)>> >>), JInt(0)}

\* data=: none, "\u00e9", "", b"\xc3", b":", 0
DataInputs == {DNone, DStr(<<233>>), DStr(<<>>), DBytes(<<195>>), DBytes(<<58>>), DInt(0)}

\* headers=: a dict that names a signature header and a content type
CallerHeaders ==
  (HEADER_HMAC_HASH :> TextStr(<<101, 118, 105, 108>>))
    @@ ("Content-Type" :> TextStr(<<116, 101, 120, 116, 47, 112, 108, 97, 105, 110>>))

KwargsInputs ==
  {[has_headers |-> b, headers |-> CallerHeaders, json |-> NoJson] : b \in BOOLEAN}

TransportOutcomes == {"response", "RequestException"}

\* the record of a request that ended as r
RequestCall(method, json, data, kwargs, transport, r) ==
  Call("request", r.body, r)
    @@ [method |-> method, json |-> json, arg |-> data, kwargs |-> kwargs,
        transport |-> transport, sent |-> r.sent, headers |-> r.headers]

\* client.get / post / put / delete(path, json=json, data=data, **kwargs)
Request ==
  /\ client # NoClient
  /\ wire = NoMsg /\ res.op \in {"none", "init"}
  /\ uuidCount < MaxUuid
  /\ \E method \in Methods, json \in JsonInputs, data \in DataInputs, kwargs \in KwargsInputs,
        transport \in TransportOutcomes, t \in ClockValues :
       /\ NotBefore(t, now)
       /\ now' = t
       /\ res' = RequestCall(method, json, data, kwargs, transport,
                             RequestOp(client, t, Uuid4(uuidCount + 1), transport, method,
                                       json, data, kwargs))
  /\ uuidCount' = IF \E i \in DOMAIN res'.trace : res'.trace[i] = "uuid4"
                  THEN uuidCount + 1 ELSE uuidCount
  /\ UNCHANGED <<client, wire, threads>>

\* client.close()
Close ==
  /\ client # NoClient
  /\ wire = NoMsg
  /\ LET r == CloseOp(client)
     IN  /\ client' = r.obj
         /\ res' = Call("close", <<>>, r) @@ [was |-> client.session]
  /\ UNCHANGED <<now, uuidCount, wire, threads>>

\* with client: the block is entered
Enter ==
  /\ client # NoClient
  /\ wire = NoMsg /\ res.op \in {"none", "init"}
  /\ res' = Call("enter", <<>>, EnterOp(client))
  /\ UNCHANGED <<client, now, uuidCount, wire, threads>>

\* what the block of a with statement ends in: nothing or an exception
BlockOutcomes == {None, "ValueError"}

\* the block is left, normally or by an exception, which is propagated
\* unless __exit__ returns a true value
Exit ==
  /\ client # NoClient
  /\ res.op = "enter"
  /\ \E raised \in BlockOutcomes :
       LET r == ExitOp(client, raised)
           suppressed == r.ret = BoolRet(TRUE)
       IN  /\ client' = r.obj
           /\ res' = Call("exit", <<>>, [r EXCEPT !.exc = IF suppressed THEN None ELSE raised])
                       @@ [raised |-> raised]
  /\ UNCHANGED <<now, uuidCount, wire, threads>>

NextHttp ==
  \/ Construct
  \/ Sha256Sign
  \/ Sign256
  \/ Sha256Verify
  \/ Verify256
  \/ Request
  \/ Close
  \/ Enter
  \/ Exit
  \/ Drop

SpecHttp == Init /\ [][NextHttp]_vars

(***************************************************************************)
(* Substitution in transit: a signature the verifier accepted is presented *)
(* again with the signed text cut into timestamp, nonce and payload at     *)
(* other colons than the signer's.                                         *)
(***************************************************************************)
Colons(m) == {i \in DOMAIN m : m[i] = 58}

Resplit ==
  /\ client # NoClient
  /\ wire.mode = "secure" /\ wire.edit = "none"
  /\ res.op = "verify256" /\ res.exc = None /\ res.ret = BoolRet(TRUE)
  /\ LET m == Message(wire.timestamp, wire.nonce, Utf8Decode(wire.data).val)
     IN  \E i \in Colons(m), j \in Colons(m) :
           LET timestamp == SubSeq(m, 1, i - 1)
               nonce == SubSeq(m, i + 1, j - 1)
               data == Utf8Encode(SubSeq(m, j + 1, Len(m))).val
           IN  /\ i < j
               /\ timestamp # wire.timestamp \/ nonce # wire.nonce
               /\ wire' = [wire EXCEPT !.edit = "resplit", !.timestamp = timestamp,
                                       !.nonce = nonce, !.data = data]
  /\ res' = NoCall
  /\ UNCHANGED <<client, now, uuidCount, threads>>

NextResplit ==
  \/ Construct
  \/ Sign256
  \/ ReceiveOther
  \/ Resplit
  \/ Verify256
  \/ Drop

SpecResplit == Init /\ [][NextResplit]_vars

(***************************************************************************)
(* Threads.  Two threads call sha256_sign, sha256_verify, sign256 and      *)
(* verify256 on the one client.  A call is a sequence of steps, one for    *)
(* each read of the object, of the clock or of the uuid source; the steps  *)
(* of the threads interleave and the clock moves between them.  A step     *)
(* gives [self, th]: the object and the thread's call after it.            *)
(***************************************************************************)
MaxThreadCalls == 2   \* calls a thread makes

\* the payloads threads sign: text, bytes that are no UTF-8, two bytes
ThreadPayloads == {<<58>>, <<195>>, <<58, 58>>}

Goto(th, pc, events) == [th EXCEPT !.pc = pc, !.trace = @ \o events]

Done(th, r) == [th EXCEPT !.pc = "done", !.exc = r.exc, !.ret = r.ret, !.trace = r.trace]

\* _check_input_size at the head of a call, next the step to go on with
CheckStep(self, th, next) ==
  IF CheckInputSize(self, th.data) # None
  THEN Done(th, Raise("InputTooLargeError", th.trace \o <<"check_input_size">>))
  ELSE Goto(th, next, <<"check_input_size">>)

\* sha256_sign(data) step by step
Sha256SignStep(self, th) ==
  LET key == Utf8Encode(self.secret_key)
  IN  [self |-> self,
       th |-> IF th.pc = "check" THEN CheckStep(self, th, "hmac")
              ELSE IF ~key.ok THEN Done(th, Raise("UnicodeEncodeError", th.trace))
              ELSE Done(th, Return(SigRet(HmacSha256Hex(key.val, th.data)),
                                   th.trace \o <<"hmac">>))]

\* sha256_verify(data, signature) step by step: its own size check, the one
\* of the sha256_sign it calls, then the digest and the comparison
Sha256VerifyStep(self, th) ==
  LET key == Utf8Encode(self.secret_key)
      c == CompareDigest(HmacSha256Hex(key.val, th.data), th.hash)
      tr == th.trace \o <<"hmac", "compare_digest">>
  IN  [self |-> self,
       th |-> IF th.pc = "check" THEN CheckStep(self, th, "check2")
              ELSE IF th.pc = "check2" THEN CheckStep(self, th, "hmac")
              ELSE IF ~key.ok THEN Done(th, CatchAll(Raise("UnicodeEncodeError", th.trace)))
              ELSE IF c.exc # None THEN Done(th, CatchAll(Raise(c.exc, tr)))
              ELSE Done(th, Return(BoolRet(c.ret), tr))]

\* as Sign256Step, had the timestamp been kept on the object between the
\* clock read and the digest
Sign256Step_OnSelf(self, th, t, uuid) ==
  LET kept == IF "timestamp" \in DOMAIN self THEN self.timestamp ELSE th.timestamp
      text == Utf8Decode(th.data)
      key == Utf8Encode(self.secret_key)
      message == Utf8Encode(Message(kept, th.nonce, text.val))
  IN  IF th.pc = "now"
      THEN [self |-> [k \in (DOMAIN self) \cup {"timestamp"} |->
                        IF k = "timestamp" THEN IsoFormat(UtcNow(t)) ELSE self[k]],
            th |-> [Goto(th, "uuid4", <<"now">>) EXCEPT !.t = t, !.timestamp = IsoFormat(UtcNow(t))]]
      ELSE [self |-> self,
            th |-> IF th.pc = "check" THEN CheckStep(self, th, "now")
                   ELSE IF th.pc = "uuid4"
                        THEN [Goto(th, "hmac", <<"uuid4">>) EXCEPT !.nonce = uuid]
                   ELSE IF ~text.ok
                        THEN Done(th, Raise("UnicodeDecodeError", th.trace \o <<"decode">>))
                   ELSE IF ~key.ok \/ ~message.ok
                        THEN Done(th, Raise("UnicodeEncodeError", th.trace \o <<"decode", "encode">>))
                   ELSE Done(th, Return(TripleRet(HmacSha256Hex(key.val, message.val), kept, th.nonce),
                                        th.trace \o <<"decode", "encode", "hmac">>))]

\* sign256(data) step by step: the size check, the clock read, the uuid4
\* draw, then the message and its digest
Sign256Step(self, th, t, uuid) ==
  LET text == Utf8Decode(th.data)
      key == Utf8Encode(self.secret_key)
      message == Utf8Encode(Message(th.timestamp, th.nonce, text.val))
  IN  [self |-> self,
       th |-> IF th.pc = "check" THEN CheckStep(self, th, "now")
              ELSE IF th.pc = "now"
                   THEN [Goto(th, "uuid4", <<"now">>) EXCEPT
                           !.t = t, !.timestamp = IsoFormat(UtcNow(t))]
              ELSE IF th.pc = "uuid4"
                   THEN [Goto(th, "hmac", <<"uuid4">>) EXCEPT !.nonce = uuid]
              ELSE IF ~text.ok
                   THEN Done(th, Raise("UnicodeDecodeError", th.trace \o <<"decode">>))
              ELSE IF ~key.ok \/ ~message.ok
                   THEN Done(th, Raise("UnicodeEncodeError", th.trace \o <<"decode", "encode">>))
              ELSE Done(th, Return(TripleRet(HmacSha256Hex(key.val, message.val),
                                             th.timestamp, th.nonce),
                                   th.trace \o <<"decode", "encode", "hmac">>))]

\* verify256(data, hash_value, timestamp, nonce) step by step: the size
\* check, _verify_timestamp with its clock read, then the message, its digest
\* and the comparison
Verify256Step(self, th, t) ==
  LET vt == VerifyTimestampOp(self, t, th.timestamp)
      text == Utf8Decode(th.data)
      key == Utf8Encode(self.secret_key)
      message == Utf8Encode(Message(th.timestamp, th.nonce, text.val))
      c == CompareDigest(HmacSha256Hex(key.val, message.val), th.hash)
      tr == th.trace \o <<"decode", "encode", "hmac", "compare_digest">>
  IN  [self |-> self,
       th |-> IF th.pc = "check" THEN CheckStep(self, th, "timestamp")
              ELSE IF th.pc = "timestamp"
                   THEN IF ~vt.ret.val
                        THEN Done([th EXCEPT !.t = t],
                                  Return(BoolRet(FALSE), th.trace \o vt.trace))
                        ELSE [Goto(th, "hmac", vt.trace) EXCEPT !.t = t]
              ELSE IF ~text.ok
                   THEN Done(th, CatchAll(Raise("UnicodeDecodeError", th.trace \o <<"decode">>)))
              ELSE IF ~key.ok \/ ~message.ok
                   THEN Done(th, CatchAll(Raise("UnicodeEncodeError",
                                                th.trace \o <<"decode", "encode">>)))
              ELSE IF c.exc # None THEN Done(th, CatchAll(Raise(c.exc, tr)))
              ELSE Done(th, Return(BoolRet(c.ret), tr))]

\* the next step of the call th is in
ThreadStep(self, th, t, uuid) ==
  IF th.op = "sha256_sign" THEN Sha256SignStep(self, th)
  ELSE IF th.op = "sha256_verify" THEN Sha256VerifyStep(self, th)
  ELSE IF th.op = "sign256" THEN Sign256Step(self, th, t, uuid)
  ELSE Verify256Step(self, th, t)

\* a thread enters a call with these arguments
Enters(th, op, data, hash, timestamp, nonce) ==
  [Idle EXCEPT !.pc = "check", !.op = op, !.data = data, !.hash = hash,
               !.timestamp = timestamp, !.nonce = nonce, !.calls = th.calls + 1]

\* calls of sign256 that have still to draw their nonce
ToDraw ==
  Cardinality({j \in Threads : threads[j].op = "sign256"
                               /\ threads[j].pc \in {"check", "now", "uuid4"}})

\* thread i, in no call, calls sha256_sign(data) or sign256(data)
ThreadSigns(i) ==
  /\ client # NoClient
  /\ threads[i].pc \in {"idle", "done"} /\ threads[i].calls < MaxThreadCalls
  /\ \E op \in {"sha256_sign", "sign256"}, data \in ThreadPayloads :
       /\ op = "sign256" => uuidCount + ToDraw < MaxUuid
       /\ threads' = [threads EXCEPT ![i] = Enters(@, op, data, NoHash, <<>>, <<>>)]
  /\ UNCHANGED <<client, now, uuidCount, wire, res>>

\* thread i, in no call, calls sha256_verify or verify256 on what a call of
\* thread j returned
ThreadVerifies(i) ==
  /\ client # NoClient
  /\ threads[i].pc \in {"idle", "done"} /\ threads[i].calls < MaxThreadCalls
  /\ \E j \in Threads :
       /\ threads[j].pc = "done" /\ threads[j].exc = None
       /\ threads[j].ret.kind \in {"signature", "triple"}
       /\ threads' = [threads EXCEPT ![i] =
            IF threads[j].ret.kind = "signature"
            THEN Enters(@, "sha256_verify", threads[j].data, threads[j].ret.hash, <<>>, <<>>)
            ELSE Enters(@, "verify256", threads[j].data, threads[j].ret.hash,
                        threads[j].ret.timestamp, threads[j].ret.nonce)]
  /\ UNCHANGED <<client, now, uuidCount, wire, res>>

\* the call of thread i goes from r.th to what the step r made of it
StepTo(i, r) ==
  /\ client' = r.self
  /\ threads' = [threads EXCEPT ![i] = r.th]
  /\ uuidCount' = IF threads[i].pc = "uuid4" THEN uuidCount + 1 ELSE uuidCount

\* thread i takes the next step of its call
ThreadSteps(i) ==
  /\ client # NoClient
  /\ threads[i].pc \notin {"idle", "done"}
  /\ StepTo(i, ThreadStep(client, threads[i], now, Uuid4(uuidCount + 1)))
  /\ UNCHANGED <<now, wire, res>>

\* the clock moves on
Tick ==
  /\ client # NoClient
  /\ \E t \in ClockValues :
       /\ NotBefore(t, now) /\ t # now
       /\ now' = t
  /\ UNCHANGED <<client, uuidCount, wire, res, threads>>

Sign == \E i \in Threads : ThreadSigns(i)

Verify == \E i \in Threads : ThreadVerifies(i)

Step == \E i \in Threads : ThreadSteps(i)

NextThreads ==
  \/ Construct
  \/ Sign
  \/ Verify
  \/ Step
  \/ Tick

SpecThreads == Init /\ [][NextThreads]_vars

(***************************************************************************)
(* Crossing the modes.  A caller who may have any byte string signed with  *)
(* sha256_sign writes a timestamp, a nonce and a payload of its choice as  *)
(* timestamp ":" nonce ":" payload, has these bytes signed, and presents   *)
(* the signature to verify256 with the three parts.                        *)
(***************************************************************************)
\* the nonces such a caller picks: one of the shape of a uuid, and "n"
ChosenNonces == {Uuid4(0), <<110>>}

\* the payloads it picks: none, "é"
ChosenPayloads == {<<>>, <<195, 169>>}

\* client.sha256_sign(f"{timestamp}:{nonce}:{payload}".encode()) for a
\* timestamp written for the instant at, a nonce and a payload of the caller
Sha256SignCrafted ==
  /\ client # NoClient
  /\ wire = NoMsg /\ res.op \in {"none", "init"}
  /\ \E at \in ClockValues, nonce \in ChosenNonces, payload \in ChosenPayloads, t \in ClockValues :
       LET timestamp == IsoFormat(UtcNow(at))
           data == Utf8Encode(Message(timestamp, nonce, Utf8Decode(payload).val)).val
           r == Sha256SignOp(client, data)
       IN  /\ NotBefore(t, now)
           /\ now' = t
           /\ res' = Call("sha256_sign", data, r)
           /\ wire' = IF r.exc = None
                     THEN Msg("secure", "crafted", client.secret_key, at, "iso",
                              Fields(payload, r.ret.hash, timestamp, nonce))
                     ELSE NoMsg
  /\ UNCHANGED <<client, uuidCount, threads>>

NextCross ==
  \/ Construct
  \/ Sha256SignCrafted
  \/ Sign256
  \/ Verify256
  \/ Drop

SpecCross == Init /\ [][NextCross]_vars

(***************************************************************************)
(* Properties.                                                             *)
(***************************************************************************)
\* half seconds from the clock's origin to t
HalfSeconds(t) == (2 * t.s) + (t.us \div 500000)

Abs(n) == IF n < 0 THEN 0 - n ELSE n

SignOps == {"sha256_sign", "sign256"}
VerifyOps == {"sha256_verify", "verify256"}
IsCall(ops) == res.op \in ops /\ client # NoClient
InTrace(e) == \E i \in DOMAIN res.trace : res.trace[i] = e
Returned(b) == res.exc = None /\ res.ret = BoolRet(b)
WithinLimit == Len(res.data) <= client.config["max_input_size"]

\* C1: stateless round trip.  sha256_verify(P, s), where s is what
\* sha256_sign(P) returned on a client holding key K and P is within the
\* verifier's size limit, returns true when the verifying client holds K and
\* false when it holds another key.
C1_StatelessRoundTrip ==
  (IsCall({"sha256_verify"}) /\ wire.mode = "simple" /\ wire.origin \in {"own", "peer"}
     /\ WithinLimit)
    => Returned(wire.key = client.secret_key)

\* a payload the client signed itself, verified on that client
C1_Witness ==
  /\ IsCall({"sha256_verify"}) /\ wire.mode = "simple" /\ wire.origin = "own"
  /\ wire.data = <<195, 169>> /\ InTrace("compare_digest") /\ Returned(TRUE)

\* C2: stateful round trip.  verify256 on exactly the triple sign256(P)
\* returned on this client returns true when no more than key_interval
\* seconds have passed since the signing.
C2_StatefulRoundTrip ==
  (IsCall({"verify256"}) /\ wire.origin = "own" /\ wire.edit = "none"
     /\ HalfSeconds(now) - HalfSeconds(wire.signedAt) <= 2 * client.config["key_interval"])
    => Returned(TRUE)

C2_Witness ==
  /\ IsCall({"verify256"}) /\ wire.origin = "own" /\ wire.edit = "none"
  /\ wire.data = <<195, 169>> /\ Len(wire.timestamp) > 25
  /\ HalfSeconds(now) - HalfSeconds(wire.signedAt) = 2 * client.config["key_interval"]
  /\ Returned(TRUE)

\* C3: tamper detection.  When verify256 accepts a payload with a triple
\* (hash, timestamp, nonce), it returns false, at the same clock value, for
\* what that payload and triple become when one byte or character of exactly
\* one of the four is replaced by another.
AcceptsOriginal ==
  LET r == Verify256Op(client, now, wire.orig.data, wire.orig.hash,
                       wire.orig.timestamp, wire.orig.nonce)
  IN  r.exc = None /\ r.ret = BoolRet(TRUE)

C3_TamperDetected ==
  (IsCall({"verify256"}) /\ wire.edit # "none" /\ AcceptsOriginal) => Returned(FALSE)

\* the changed timestamp still parses and lies within the window
C3_Witness ==
  /\ IsCall({"verify256"}) /\ wire.edit = "timestamp" /\ AcceptsOriginal
  /\ InTrace("compare_digest") /\ Returned(FALSE)

\* C4: size boundary.  Each of the four operations raises InputTooLargeError
\* on a payload of max_input_size + 1 bytes and does not raise it on a payload
\* of exactly max_input_size bytes.
C4_SizeBoundary ==
  IsCall(SignOps \cup VerifyOps) =>
    /\ Len(res.data) = client.config["max_input_size"] => res.exc # "InputTooLargeError"
    /\ Len(res.data) = client.config["max_input_size"] + 1 => res.exc = "InputTooLargeError"

C4_Witness ==
  /\ IsCall({"verify256"}) /\ Len(res.data) = client.config["max_input_size"]
  /\ Returned(TRUE)

\* C5: the tolerance window is inclusive and symmetric.  For a message
\* signed with the verifier's key over an aware timestamp, verify256 returns
\* true exactly when the timestamp is at most key_interval seconds before or
\* after the verifier's clock.
C5_ToleranceWindow ==
  (IsCall({"verify256"}) /\ wire.origin \in {"own", "peer"} /\ wire.edit = "none"
     /\ wire.key = client.secret_key /\ wire.tsform \in {"iso", "go", "offset"}
     /\ Utf8Decode(wire.data).ok /\ WithinLimit)
    => Returned(Abs(HalfSeconds(now) - HalfSeconds(wire.signedAt))
                  <= 2 * client.config["key_interval"])

\* accepted exactly key_interval seconds ahead of the verifier's clock
C5_Witness ==
  /\ IsCall({"verify256"}) /\ wire.origin = "peer" /\ wire.tsform = "iso"
  /\ HalfSeconds(wire.signedAt) - HalfSeconds(now) = 2 * client.config["key_interval"]
  /\ Returned(TRUE)

\* C6: non-repeatability.  Of two successive sign256 calls on one client with
\* the same payload, the second returns another nonce and another signature
\* than the first, also when both read the same clock value.
C6_NonRepeatable ==
  (IsCall({"sign256"}) /\ res.exc = None /\ res.prev # NoFields /\ res.prev.data = res.data)
    => /\ res.ret.nonce # res.prev.nonce
       /\ res.ret.hash # res.prev.hash

C6_Witness ==
  /\ IsCall({"sign256"}) /\ res.exc = None /\ res.prev # NoFields /\ res.prev.data = res.data
  /\ res.ret.timestamp = res.prev.timestamp
  /\ res.ret.hash # res.prev.hash

\* C7: verification never raises for an authentication failure.  On a payload
\* within the size limit, verify256 and sha256_verify return a boolean and
\* raise nothing, whatever the signature, the timestamp, the nonce and the
\* payload's encoding are.
C7_VerifyNeverRaises ==
  (IsCall(VerifyOps) /\ WithinLimit) => (res.exc = None /\ res.ret.kind = "bool")

\* a payload that is not valid UTF-8 under a timestamp within the window
C7_Witness ==
  /\ IsCall({"verify256"}) /\ WithinLimit /\ ~Utf8Decode(res.data).ok
  /\ InTrace("decode") /\ Returned(FALSE)

\* C8: construction fails fast.  The constructor raises ConfigurationError,
\* hands out no client and creates no session when the secret key is empty,
\* key_interval <= 0 or max_input_size <= 0; so every client there is has a
\* non-empty key and positive key_interval and max_input_size.
Given(config, name) == IF name \in DOMAIN config THEN config[name] ELSE DEFAULT_CONFIG[name]

BadCtor(c) ==
  \/ c.secret_key = <<>>
  \/ Given(c.config, "key_interval") <= 0
  \/ Given(c.config, "max_input_size") <= 0

C8_ConstructFailsFast ==
  /\ (res.op = "init" /\ BadCtor(res.ctor))
       => (res.exc = "ConfigurationError" /\ client = NoClient /\ ~InTrace("Session"))
  /\ client # NoClient
       => /\ client.secret_key # <<>>
          /\ client.config["key_interval"] > 0
          /\ client.config["max_input_size"] > 0
          /\ client.session = "open"

\* only max_input_size is wrong, and it is zero
C8_Witness ==
  /\ res.op = "init" /\ res.ctor.secret_key # <<>>
  /\ Given(res.ctor.config, "key_interval") > 0
  /\ Given(res.ctor.config, "max_input_size") = 0
  /\ res.exc = "ConfigurationError" /\ client = NoClient

\* C9: the size guard comes first.  On a payload longer than max_input_size
\* each of the four operations raises InputTooLargeError, returns nothing, and
\* has done nothing but the size check: no HMAC, no clock read, no nonce drawn,
\* no parsing or decoding.
C9_SizeGuardFirst ==
  (IsCall(SignOps \cup VerifyOps) /\ ~WithinLimit)
    => /\ res.exc = "InputTooLargeError"
       /\ res.ret = NoRet
       /\ res.trace = <<"check_input_size">>

\* an oversized payload of valid UTF-8 with a signature that is no digest
\* and a timestamp that does not parse
C9_Witness ==
  /\ IsCall({"verify256"}) /\ ~WithinLimit /\ Utf8Decode(res.data).ok
  /\ wire.origin = "junk" /\ wire.timestamp = NotADate
  /\ res.exc = "InputTooLargeError"

\* C10: signing fails only on size.  For every payload within the size limit,
\* sha256_sign and sign256 return and raise nothing.
C10_SignFailsOnlyOnSize ==
  (IsCall(SignOps) /\ WithinLimit) => res.exc = None

\* C11: failure causes are indistinguishable.  Every verify256 call on a
\* payload within the size limit that does not return true has one and the
\* same outcome, whichever check failed: it returns false, raises nothing and
\* leaves the client and the nonce source as they were.
FailedVerify256 == IsCall({"verify256"}) /\ WithinLimit /\ res.ret # BoolRet(TRUE)

C11_FailuresAlike ==
  [][FailedVerify256' =>
       /\ res'.exc = None /\ res'.ret = BoolRet(FALSE)
       /\ client' = client /\ uuidCount' = uuidCount /\ wire' = wire]_vars

\* the timestamp lies outside the window under a signature that would match
C11_Witness ==
  /\ FailedVerify256 /\ wire.origin = "peer" /\ wire.key = client.secret_key
  /\ wire.tsform = "iso" /\ Utf8Decode(wire.data).ok
  /\ ~InTrace("compare_digest") /\ Returned(FALSE)

\* C20: check ordering in verify256.  The steps a call takes are, in this
\* order, the size guard, the timestamp check, the rebuilding of the signed
\* text, the HMAC and the comparison; when the timestamp does not parse or
\* lies outside the window, the call returns false having neither decoded the
\* payload nor computed an HMAC.
Verify256Order ==
  <<"check_input_size", "fromisoformat", "now", "decode", "encode", "hmac", "compare_digest">>

IsPrefix(s, t) == Len(s) <= Len(t) /\ \A i \in DOMAIN s : s[i] = t[i]

\* the timestamp of the message at hand, as a peer or this client wrote it,
\* is a timestamp with an offset, within the window of the clock read last
TimestampGood ==
  /\ wire.mode = "secure" /\ wire.edit = "none"
  /\ wire.timestamp \notin JunkTimestamps
  /\ Abs(HalfSeconds(now) - HalfSeconds(wire.signedAt)) <= 2 * client.config["key_interval"]

C20_CheckOrder ==
  IsCall({"verify256"}) =>
    /\ IsPrefix(res.trace, Verify256Order)
    /\ Len(res.trace) >= 1
    /\ (WithinLimit /\ ~TimestampGood) =>
         /\ Returned(FALSE)
         /\ ~InTrace("decode") /\ ~InTrace("encode") /\ ~InTrace("hmac")
         /\ ~InTrace("compare_digest")

\* a timestamp that does not parse, over a payload that would not decode
C20_Witness ==
  /\ IsCall({"verify256"}) /\ WithinLimit /\ wire.timestamp = NotADate
  /\ ~Utf8Decode(res.data).ok
  /\ res.trace = <<"check_input_size", "fromisoformat">> /\ Returned(FALSE)

\* C16: signer and verifier use the same canonical message.  The hash
\* sign256 returns is the HMAC-SHA256, under the key's UTF-8 bytes, of the
\* UTF-8 bytes of timestamp ":" nonce ":" payload-as-text for the timestamp
\* and nonce it returns; and verify256 returns true exactly when the payload
\* is within the size limit and decodes as UTF-8, the timestamp parses and
\* lies within the window, and the given hash is the HMAC of that same text
\* built from the arguments, the timestamp taken as given, "Z" included.
CanonicalBytes(timestamp, nonce, data) ==
  Utf8Encode(timestamp \o <<58>> \o nonce \o <<58>> \o Utf8Decode(data).val).val

CanonicalHmac(key, timestamp, nonce, data) ==
  [kind |-> "digest", key |-> Utf8Encode(key).val,
   msg |-> CanonicalBytes(timestamp, nonce, data), edit |-> NoEdit, text |-> <<>>]

C16_CanonicalMessage ==
  /\ (IsCall({"sign256"}) /\ res.exc = None) =>
       res.ret.hash = CanonicalHmac(client.secret_key, res.ret.timestamp, res.ret.nonce, res.data)
  /\ IsCall({"verify256"}) =>
       (Returned(TRUE) <=>
          /\ WithinLimit
          /\ Utf8Decode(wire.data).ok
          /\ TimestampGood
          /\ wire.hash = CanonicalHmac(client.secret_key, wire.timestamp, wire.nonce, wire.data))

\* a peer's message under a timestamp that ends in "Z" is accepted
C16_Witness ==
  /\ IsCall({"verify256"}) /\ wire.origin = "peer" /\ wire.tsform = "go"
  /\ wire.timestamp[Len(wire.timestamp)] = 90
  /\ wire.data = <<195, 169>> /\ Returned(TRUE)

\* C15: the verifier keeps no memory of nonces.  A verify256 call on the
\* payload and triple the call before it accepted returns true again while
\* the clock is within key_interval of the timestamp, and returns what the
\* call before it returned when the clock has not moved.
C15_NoNonceMemory ==
  [][(IsCall({"verify256"}) /\ res'.op = "verify256") =>
       /\ (Returned(TRUE) /\ TimestampGood') => (res'.exc = None /\ res'.ret = BoolRet(TRUE))
       /\ now' = now => (res'.exc = res.exc /\ res'.ret = res.ret)]_vars

\* accepted a second time, later than the first
C15_Witness ==
  /\ IsCall({"verify256"}) /\ Returned(TRUE)
  /\ res.prev = Fields(wire.data, wire.hash, wire.timestamp, wire.nonce)
  /\ res.prev # NoFields
  /\ HalfSeconds(now) > HalfSeconds(wire.signedAt)

\* C12: timestamp and nonce are bound to the signature.  When verify256
\* accepts a payload with a hash, a timestamp and a nonce, it returns false,
\* at the same clock value, for that hash with any payload, timestamp and
\* nonce of which the timestamp or the nonce is another.
C12_BoundToSignature ==
  (IsCall({"verify256"}) /\ wire.edit = "resplit" /\ AcceptsOriginal
     /\ wire.hash = wire.orig.hash
     /\ (wire.timestamp # wire.orig.timestamp \/ wire.nonce # wire.orig.nonce))
    => Returned(FALSE)

\* C14: configuration is immutable after construction.  The client a
\* successful construction hands out holds the given secret key, which is not
\* empty, and the given key_interval and max_input_size (300 and 33554432
\* where not given), both positive; no sign, verify, request, close or
\* with-statement step changes the key or the configuration or takes the
\* client away, and none raises ConfigurationError.
ConfigOptions == {"key_interval", "max_input_size"}

C14_ConfigImmutable ==
  [][/\ (client = NoClient /\ client' # NoClient)
          => /\ client'.secret_key = res'.ctor.secret_key
             /\ client'.secret_key # <<>>
             /\ \A name \in ConfigOptions :
                  /\ client'.config[name] = Given(res'.ctor.config, name)
                  /\ client'.config[name] > 0
     /\ client # NoClient
          => /\ client' # NoClient
             /\ client'.secret_key = client.secret_key
             /\ client'.config = client.config
             /\ res'.exc # "ConfigurationError"]_vars

\* a client built with key_interval 1 and the default max_input_size has
\* sent a request after its session was closed
C14_Witness ==
  /\ res.op = "request" /\ res.exc = None
  /\ client # NoClient
  /\ client.session = "closed"
  /\ client.config["key_interval"] = 1
  /\ client.config["max_input_size"] = 33554432

\* C17: every request that reaches the transport is signed.  The headers
\* session.request is given hold X-HMAC-Hash, X-HMAC-Timestamp and
\* X-HMAC-Nonce, their values are the triple sign256 returns for the prepared
\* body at the time of the call with the one nonce the call drew, also when
\* the caller's headers held such names, and verify256 of the prepared body
\* with these three values returns true on this client at that time.
Sent == res.op = "request" /\ client # NoClient /\ res.sent # NoSent

Draws == Cardinality({i \in DOMAIN res.trace : res.trace[i] = "uuid4"})

C17_SignedHeaders ==
  Sent =>
    LET h == res.sent.headers
        sg == Sign256Op(client, now, Uuid4(uuidCount), res.data)
    IN  /\ {HEADER_HMAC_HASH, HEADER_HMAC_TIMESTAMP, HEADER_HMAC_NONCE} \subseteq DOMAIN h
        /\ Draws = 1
        /\ sg.exc = None
        /\ h[HEADER_HMAC_HASH] = sg.ret.hash
        /\ h[HEADER_HMAC_TIMESTAMP] = TextStr(sg.ret.timestamp)
        /\ h[HEADER_HMAC_NONCE] = TextStr(sg.ret.nonce)
        /\ Verify256Op(client, now, res.data, h[HEADER_HMAC_HASH],
                       h[HEADER_HMAC_TIMESTAMP].text, h[HEADER_HMAC_NONCE].text)
             = Return(BoolRet(TRUE), Verify256Order)

\* a request went out whose caller had supplied an X-HMAC-Hash of its own
C17_Witness ==
  /\ Sent /\ res.kwargs.has_headers
  /\ HEADER_HMAC_HASH \in DOMAIN res.kwargs.headers
  /\ res.sent.headers[HEADER_HMAC_HASH] # res.kwargs.headers[HEADER_HMAC_HASH]
  /\ res.data # <<>>

\* C18: request body selection.  For post and put, and for get and delete
\* called without json=, the body given to sign256 is the UTF-8 encoding of
\* the compact JSON text of json when json is given, whatever data is; else
\* data encoded as UTF-8 when it is a str, data itself when it is bytes, str(data)
\* encoded when it is anything else; else empty.  A request that reaches the
\* transport carries this body as data, or no data when the body is empty,
\* and its Content-Type is application/json when json was given.
JsonAsParameter == res.method \in {"POST", "PUT"} \/ res.json = NoJson

ExpectedBody(json, data) ==
  IF json # NoJson THEN Utf8Encode(JsonDumps(json)).val
  ELSE IF data = DNone THEN <<>>
  ELSE IF data.t = "str" THEN Utf8Encode(data.s).val
  ELSE IF data.t = "bytes" THEN data.s
  ELSE Utf8Encode(IntStr(data.n)).val

\* {"a":[1,"\u00e9"]}
CompactExample ==
  <<123, 34, 97, 34, 58, 91, 49, 44, 34, 92, 117, 48, 48, 101, 57, 34, 93, 125>>

C18_WitnessEmpty ==
  /\ res.op = "request" /\ res.method = "PUT"
  /\ res.json = NoJson /\ res.arg = DStr(<<>>)
  /\ res.sent # NoSent /\ ~res.sent.has_data

\* C19: the with statement cleans up.  Leaving the block calls close() on
\* the session exactly once, whether the block ended normally or raised; what
\* the block raised reaches the caller; the session is closed afterwards; and
\* close() called on a client, closed or not, raises nothing and leaves the
\* session closed.
Closes == Cardinality({i \in DOMAIN res.trace : res.trace[i] = "session.close"})

C19_ContextManager ==
  /\ res.op = "exit" =>
       /\ Closes = 1
       /\ res.exc = res.raised
       /\ client # NoClient /\ client.session = "closed"
  /\ res.op = "close" =>
       /\ res.exc = None /\ Closes = 1
       /\ client # NoClient /\ client.session = "closed"

\* close() was called on a client whose session was closed already
C19_WitnessLater ==
  /\ res.op = "close" /\ res.was = "closed" /\ res.exc = None
  /\ client.session = "closed"

\* a block that raised ValueError was left: the session is closed and the
\* ValueError went on to the caller
C19_Witness ==
  /\ res.op = "exit" /\ res.raised = "ValueError" /\ res.exc = "ValueError"
  /\ client.session = "closed"

\* C13: concurrency safety.  With two threads calling sha256_sign,
\* sha256_verify, sign256 and verify256 on one client, their steps interleaved
\* in any order and the clock moving between them, the client stays the
\* object its constructor made, secret_key and config included; every call that has returned or raised ended
\* as the same call ends when run alone with the clock value it read and the
\* nonce it drew; and what a call signed is accepted by the verifier of its
\* mode at the time it was signed.
Outcome(th) == [exc |-> th.exc, ret |-> th.ret, trace |-> th.trace]

Alone(th) ==
  IF th.op = "sha256_sign" THEN Sha256SignOp(client, th.data)
  ELSE IF th.op = "sha256_verify" THEN Sha256VerifyOp(client, th.data, th.hash)
  ELSE IF th.op = "sign256" THEN Sign256Op(client, th.t, th.nonce, th.data)
  ELSE Verify256Op(client, th.t, th.data, th.hash, th.timestamp, th.nonce)

SignedVerifies(th) ==
  /\ (th.op = "sha256_sign" /\ th.exc = None)
       => Sha256VerifyOp(client, th.data, th.ret.hash).ret = BoolRet(TRUE)
  /\ (th.op = "sign256" /\ th.exc = None)
       => Verify256Op(client, th.t, th.data, th.ret.hash, th.ret.timestamp, th.ret.nonce).ret
            = BoolRet(TRUE)

ThreadsAgree ==
  \A i \in Threads :
    threads[i].pc = "done" => (Outcome(threads[i]) = Alone(threads[i]) /\ SignedVerifies(threads[i]))

\* the client is the object its constructor made
AsConstructed == client = InitOp(res.ctor.secret_key, res.ctor.config).obj

C13_ThreadSafe ==
  client # NoClient => (AsConstructed /\ ThreadsAgree)

\* two sign256 calls overlapped: thread 1 read the clock before thread 2 did
\* and drew its nonce after thread 2 did, and both returned
C13_Witness ==
  /\ \A i \in Threads : threads[i].pc = "done" /\ threads[i].op = "sign256" /\ threads[i].exc = None
  /\ threads[1].t # threads[2].t /\ NotBefore(threads[2].t, threads[1].t)
  /\ threads[1].nonce = Uuid4(2) /\ threads[2].nonce = Uuid4(1)

\* a verify256 call that ran while the clock moved past the window returned
\* false on what another thread had signed
C13_WitnessVerify ==
  \E i \in Threads :
    /\ threads[i].pc = "done" /\ threads[i].op = "verify256"
    /\ threads[i].ret = BoolRet(FALSE) /\ threads[i].trace = <<"check_input_size", "fromisoformat", "now">>

\* C25: a request leaves the caller's arguments as they were.  After get,
\* post, put or delete has returned or raised, the dict the caller gave as
\* headers= holds the entries it held before the call.
C25_CallerHeadersKept ==
  (res.op = "request" /\ res.kwargs.has_headers) => res.headers = res.kwargs.headers

\* C21: the bytes signed are the bytes sent.  In every request that reaches
\* the transport, the body session.request is asked to send is the byte
\* string sign256 was given: data= carries it when it is not empty, and no
\* json= is handed on from which the transport would make a body of its own
\* when there is no data.
C21_SignedIsSent ==
  Sent =>
    /\ res.sent.data = res.data
    /\ res.sent.has_data = (res.data # <<>>)
    /\ res.sent.has_data \/ res.sent.json = NoJson

\* C22: no request is sent unsigned.  session.request is called only after
\* sign256 has returned: a body above max_input_size ends the call in
\* InputTooLargeError and a body that is no UTF-8 in UnicodeDecodeError, both
\* reaching the caller with session.request not called; when session.request
\* is called it is the last step, after the digest; and when it raises
\* RequestException the caller gets HTTPError.
LastIs(e) == Len(res.trace) > 0 /\ res.trace[Len(res.trace)] = e

Count(e) == Cardinality({i \in DOMAIN res.trace : res.trace[i] = e})

SigningFails ==
  Len(res.data) > client.config["max_input_size"] \/ ~Utf8Decode(res.data).ok

C22_SignBeforeSend ==
  (res.op = "request" /\ client # NoClient) =>
    /\ (res.sent # NoSent) = InTrace("session.request")
    /\ Len(res.data) > client.config["max_input_size"] => res.exc = "InputTooLargeError"
    /\ (Len(res.data) <= client.config["max_input_size"] /\ ~Utf8Decode(res.data).ok)
         => res.exc = "UnicodeDecodeError"
    /\ SigningFails => (res.sent = NoSent /\ ~InTrace("hmac"))
    /\ ~SigningFails =>
         /\ res.sent # NoSent
         /\ Count("hmac") = 1 /\ Count("session.request") = 1 /\ LastIs("session.request")
         /\ res.trace[Len(res.trace) - 1] = "hmac"
         /\ res.transport = "RequestException" => res.exc = "HTTPError"
         /\ res.transport = "response" => (res.exc = None /\ res.ret = [kind |-> "response"])

\* a post of bytes that are no UTF-8 raised UnicodeDecodeError and nothing
\* was sent
C22_Witness ==
  /\ res.op = "request" /\ res.method = "POST" /\ res.arg = DBytes(<<195>>)
  /\ res.exc = "UnicodeDecodeError" /\ res.sent = NoSent

\* a body above max_input_size raised InputTooLargeError and nothing was sent
C22_WitnessTooLarge ==
  /\ res.op = "request" /\ res.exc = "InputTooLargeError" /\ res.sent = NoSent
  /\ Len(res.data) > client.config["max_input_size"]

\* the transport raised RequestException and the caller got HTTPError
C22_WitnessTransport ==
  /\ res.op = "request" /\ res.transport = "RequestException" /\ res.exc = "HTTPError"
  /\ res.sent # NoSent

\* C23: expiry is permanent.  The clock does not run backwards.  A
\* verify256 call made when the clock is more than key_interval past the
\* timestamp of the message does not accept it, and neither does any call
\* that follows it on that message: it returns false when the payload is
\* within max_input_size and raises InputTooLargeError, as it does at any
\* time, when it is not; and a message this client signed is accepted
\* by every call made while the clock is at most key_interval past its
\* timestamp, the last instant included.
Dated == wire.mode = "secure" /\ wire.edit = "none" /\ wire.tsform \in {"iso", "go", "offset"}

Age == HalfSeconds(now) - HalfSeconds(wire.signedAt)

Expired == Age > 2 * client.config["key_interval"]

C23_ExpiryPermanent ==
  [][(client # NoClient /\ res'.op = "verify256" /\ Dated') =>
       /\ NotBefore(now', now)
       /\ Expired' =>
            /\ res'.ret # BoolRet(TRUE)
            /\ Len(wire'.data) <= client.config["max_input_size"]
                 => (res'.exc = None /\ res'.ret = BoolRet(FALSE))
            /\ Len(wire'.data) > client.config["max_input_size"]
                 => res'.exc = "InputTooLargeError"
       /\ (IsCall({"verify256"}) /\ wire' = wire /\ Expired) => Expired'
       /\ (wire'.origin = "own" /\ ~Expired') => (res'.exc = None /\ res'.ret = BoolRet(TRUE))]_vars

\* a message this client signed was accepted and, the clock having passed
\* the window, is rejected by the next call
C23_Witness ==
  /\ IsCall({"verify256"}) /\ Dated /\ wire.origin = "own"
  /\ res.prev = Fields(wire.data, wire.hash, wire.timestamp, wire.nonce)
  /\ Expired /\ Returned(FALSE)

\* a message this client signed is accepted at the last instant of its window
C23_WitnessLast ==
  /\ IsCall({"verify256"}) /\ Dated /\ wire.origin = "own"
  /\ Age = 2 * client.config["key_interval"] /\ Returned(TRUE)

\* C24: the modes are separate.  verify256 never accepts, for any payload,
\* timestamp and nonce, a signature that sha256_sign returned under the same
\* key.
C24_ModesSeparate ==
  (IsCall({"verify256"}) /\ wire.origin = "crafted") => ~Returned(TRUE)

====
